---- MODULE Spec2Model ----
(***************************************************************************)
(* OAuth 2.0 authorization server (Express + jose): the authorize endpoint *)
(* and the token endpoint with its two grants.  Tokens are HS256 JWTs, so  *)
(* a token is its claims set plus a MAC over it; the server keeps no state *)
(* besides the clock.  The sets of issued tokens are history variables.    *)
(***************************************************************************)
EXTENDS FiniteSets, Integers, Sequences, TLC

VARIABLES now, ticks, issued, rotated, last

vars == <<now, ticks, issued, rotated, last>>

(* ---------------------------- configuration ---------------------------- *)

JWT_SECRET == "default-secret-key"
CLIENT_ID == "upfirst"
REDIRECT_URI == "http://localhost:8081/process"

\* '1h', '30d' and '5m' as jose's setExpirationTime reads them, in seconds
ACCESS_TOKEN_EXPIRY == 3600
REFRESH_TOKEN_EXPIRY == 2592000
AUTH_CODE_EXPIRY == 300

secretKey == JWT_SECRET

(* ------------------------------- bounds -------------------------------- *)

MaxTicks == 1
MaxIssued == 4

(* --------------------------- request inputs ---------------------------- *)

\* a query or body field that the request does not carry (JS undefined)
Absent == "undefined"

ResponseTypes == {"code", "token"}
ClientIds == {CLIENT_ID, "invalid_client"}
RedirectUris == {REDIRECT_URI, "http://bad-redirect.com", Absent}
GrantTypes == {"authorization_code", "refresh_token", Absent}

NoState == [present |-> FALSE, value |-> <<>>]
StateValue(s) == [present |-> TRUE, value |-> s]
States == {NoState, StateValue(<<>>), StateValue(<<"a", "&", "b", "=", "%">>)}

\* the clock advances to the last second of a code's or a refresh token's
\* life, or to its expiry
Deltas == {AUTH_CODE_EXPIRY - 1, AUTH_CODE_EXPIRY,
           REFRESH_TOKEN_EXPIRY - 1, REFRESH_TOKEN_EXPIRY}

(* ------------------------- jose: SignJWT/jwtVerify --------------------- *)

\* HS256 tag of a claims set under a key
Sign(payload, key) == [key |-> key, over |-> payload]

\* new SignJWT(claims).setProtectedHeader().setExpirationTime(d).setIssuedAt().sign(key)
SignJWT(clientId, redirectUri, expiry, t, key) ==
  LET payload == [clientId |-> clientId, redirectUri |-> redirectUri,
                  iat |-> t, exp |-> t + expiry]
  IN [payload |-> payload, sig |-> Sign(payload, key)]

\* a string that is not a compact JWS
NotAToken(s) == [raw |-> s]

IsJWT(x) == DOMAIN x = {"payload", "sig"}

\* jwtVerify with the expiry test off by one: a token still passes at exp
jwtVerify_late(token, key, t) ==
  /\ DOMAIN token = {"payload", "sig"}
  /\ token.sig = [key |-> key, over |-> token.payload]
  /\ ~(token.payload.exp < t)

\* jwtVerify(token, key) returns the payload; it throws on a malformed token,
\* on a tag that does not match, and when exp <= now
jwtVerify(token, key, t) ==
  /\ IsJWT(token)
  /\ token.sig = Sign(token.payload, key)
  /\ ~(token.payload.exp <= t)

(* ------------------------------ tokens.ts ------------------------------ *)

generateAccessToken(clientId, t) ==
  SignJWT(clientId, Absent, ACCESS_TOKEN_EXPIRY, t, secretKey)

\* generateRefreshToken stamping the time the process started, not the
\* time of the call
generateRefreshToken_stale(clientId, t) ==
  SignJWT(clientId, Absent, REFRESH_TOKEN_EXPIRY, 0, secretKey)

generateRefreshToken(clientId, t) ==
  SignJWT(clientId, Absent, REFRESH_TOKEN_EXPIRY, t, secretKey)

(* -------------------------- encodeURIComponent ------------------------- *)

EncodeChar(c) ==
  CASE c = "&" -> <<"%", "2", "6">>
    [] c = "=" -> <<"%", "3", "D">>
    [] c = "%" -> <<"%", "2", "5">>
    [] OTHER -> <<c>>

RECURSIVE encodeURIComponent(_)
encodeURIComponent(s) ==
  IF s = <<>> THEN <<>>
  ELSE EncodeChar(Head(s)) \o encodeURIComponent(Tail(s))

\* inverse table of the percent escapes
DecodeEscape(h1, h2) ==
  CASE h1 = "2" /\ h2 = "6" -> "&"
    [] h1 = "3" /\ h2 = "D" -> "="
    [] h1 = "2" /\ h2 = "5" -> "%"
    [] OTHER -> "?"

RECURSIVE decodeURIComponent(_)
decodeURIComponent(s) ==
  IF s = <<>> THEN <<>>
  ELSE IF Head(s) = "%" /\ Len(s) >= 3
       THEN <<DecodeEscape(s[2], s[3])>> \o decodeURIComponent(SubSeq(s, 4, Len(s)))
       ELSE <<Head(s)>> \o decodeURIComponent(Tail(s))

(* --------------- the redirect as the user-agent reads it --------------- *)

\* the pieces of a string between occurrences of sep
RECURSIVE Split(_, _)
Split(s, sep) ==
  IF s = <<>> THEN << <<>> >>
  ELSE LET rest == Split(Tail(s), sep)
       IN IF Head(s) = sep THEN << <<>> >> \o rest
          ELSE << <<Head(s)>> \o Head(rest) >> \o Tail(rest)

\* position of the first "=" of a piece, or Len + 1 when it has none
FirstEq(piece) ==
  IF \E i \in 1..Len(piece) : piece[i] = "="
  THEN CHOOSE i \in 1..Len(piece) :
         piece[i] = "=" /\ \A j \in 1..(i - 1) : piece[j] # "="
  ELSE Len(piece) + 1

\* new URLSearchParams(location.split('?')[1]): the name=value pairs that
\* follow the code in the query, decoded
ExtraParams(location) ==
  LET pieces == Split(location.suffix, "&")
  IN {[name |-> decodeURIComponent(SubSeq(pieces[i], 1, FirstEq(pieces[i]) - 1)),
       value |-> decodeURIComponent(SubSeq(pieces[i], FirstEq(pieces[i]) + 1, Len(pieces[i])))] :
        i \in 2..Len(pieces)}

StateName == <<"s", "t", "a", "t", "e">>

HasStateParam(location) == \E p \in ExtraParams(location) : p.name = StateName

StateParam(location) == CHOOSE p \in ExtraParams(location) : p.name = StateName

(* ------------------------ GET /api/oauth/authorize --------------------- *)

Send(status, text) == [status |-> status, kind |-> "send", text |-> text]
Json(status, body) == [status |-> status, kind |-> "json", body |-> body]
Redirect(status, location) == [status |-> status, kind |-> "redirect", location |-> location]

\* `${redirect_uri}?code=${encodeURIComponent(code)}` and the optional state.
\* A compact JWS consists of unreserved characters only, so encoding leaves
\* the code as it is; the code is kept as one unit of the location.
RedirectLocation(redirect_uri, code, state) ==
  [base |-> redirect_uri,
   code |-> code,
   suffix |-> IF state.present /\ state.value # <<>>
              THEN <<"&">> \o StateName \o <<"=">> \o encodeURIComponent(state.value)
              ELSE <<>>]

\* Authorize signing a code that is not bound to the redirect URI
Authorize_unbound(req, t) ==
  IF req.response_type # "code"
  THEN [responses |-> <<Send(400, "Unsupported response_type. Expected \"code\".")>>,
        minted |-> {}]
  ELSE IF req.client_id # CLIENT_ID
  THEN [responses |-> <<Send(400, "Invalid client_id.")>>, minted |-> {}]
  ELSE IF req.redirect_uri # REDIRECT_URI
  THEN [responses |-> <<Send(400, "Invalid redirect_uri.")>>, minted |-> {}]
  ELSE LET code == SignJWT(CLIENT_ID, Absent, AUTH_CODE_EXPIRY, t, secretKey)
       IN [responses |-> <<Redirect(302, RedirectLocation(req.redirect_uri, code, req.state))>>,
           minted |-> {[kind |-> "code", token |-> code]}]

\* Authorize checking client_id before response_type
Authorize_clientFirst(req, t) ==
  IF req.client_id # CLIENT_ID
  THEN [responses |-> <<Send(400, "Invalid client_id.")>>, minted |-> {}]
  ELSE IF req.response_type # "code"
  THEN [responses |-> <<Send(400, "Unsupported response_type. Expected \"code\".")>>,
        minted |-> {}]
  ELSE IF req.redirect_uri # REDIRECT_URI
  THEN [responses |-> <<Send(400, "Invalid redirect_uri.")>>, minted |-> {}]
  ELSE LET code == SignJWT(CLIENT_ID, REDIRECT_URI, AUTH_CODE_EXPIRY, t, secretKey)
       IN [responses |-> <<Redirect(302, RedirectLocation(req.redirect_uri, code, req.state))>>,
           minted |-> {[kind |-> "code", token |-> code]}]

\* the handler: the responses it sends and the tokens it signs
Authorize(req, t) ==
  IF req.response_type # "code"
  THEN [responses |-> <<Send(400, "Unsupported response_type. Expected \"code\".")>>,
        minted |-> {}]
  ELSE IF req.client_id # CLIENT_ID
  THEN [responses |-> <<Send(400, "Invalid client_id.")>>, minted |-> {}]
  ELSE IF req.redirect_uri # REDIRECT_URI
  THEN [responses |-> <<Send(400, "Invalid redirect_uri.")>>, minted |-> {}]
  ELSE LET code == SignJWT(CLIENT_ID, REDIRECT_URI, AUTH_CODE_EXPIRY, t, secretKey)
       IN [responses |-> <<Redirect(302, RedirectLocation(req.redirect_uri, code, req.state))>>,
           minted |-> {[kind |-> "code", token |-> code]}]

(* -------------------------- POST /api/oauth/token ---------------------- *)

Error(e) == Json(400, [error |-> e])

TokenResponse(accessToken, newRefreshToken) ==
  Json(200, [access_token |-> accessToken, token_type |-> "bearer",
             expires_in |-> 3600, refresh_token |-> newRefreshToken])

Mint(client_id, t) ==
  LET accessToken == generateAccessToken(client_id, t)
      newRefreshToken == generateRefreshToken(client_id, t)
  IN [responses |-> <<TokenResponse(accessToken, newRefreshToken)>>,
      minted |-> {[kind |-> "access", token |-> accessToken],
                  [kind |-> "refresh", token |-> newRefreshToken]}]

\* the authorization_code grant refusing a code only when both its clientId
\* and its redirectUri differ from the request's
AuthorizationCodeGrant_and(body, t) ==
  IF ~jwtVerify(body.code, secretKey, t)
  THEN [responses |-> <<Error("invalid_code")>>, minted |-> {}]
  ELSE IF body.code.payload.clientId # body.client_id
          /\ body.code.payload.redirectUri # body.redirect_uri
  THEN [responses |-> <<Error("invalid_client")>>, minted |-> {}]
  ELSE Mint(body.client_id, t)

AuthorizationCodeGrant(body, t) ==
  IF ~jwtVerify(body.code, secretKey, t)
  THEN [responses |-> <<Error("invalid_code")>>, minted |-> {}]
  ELSE IF body.code.payload.clientId # body.client_id
          \/ body.code.payload.redirectUri # body.redirect_uri
  THEN [responses |-> <<Error("invalid_client")>>, minted |-> {}]
  ELSE Mint(body.client_id, t)

RefreshTokenGrant(body, t) ==
  IF ~jwtVerify(body.refresh_token, secretKey, t)
  THEN [responses |-> <<Error("invalid_refresh_token")>>, minted |-> {}]
  ELSE IF body.refresh_token.payload.clientId # body.client_id
          /\ body.refresh_token.payload.redirectUri # body.redirect_uri
  THEN [responses |-> <<Error("invalid_client")>>, minted |-> {}]
  ELSE Mint(body.client_id, t)

\* the token endpoint treating every grant_type but authorization_code as
\* a refresh
Token_fallthrough(body, t) ==
  IF body.grant_type = "authorization_code" THEN AuthorizationCodeGrant(body, t)
  ELSE RefreshTokenGrant(body, t)

Token(body, t) ==
  IF body.grant_type = "authorization_code" THEN AuthorizationCodeGrant(body, t)
  ELSE IF body.grant_type = "refresh_token" THEN RefreshTokenGrant(body, t)
  ELSE [responses |-> <<Error("unsupported_grant_type")>>, minted |-> {}]

(* ------------------------------ the clients ---------------------------- *)

\* a token with the claims of a fresh authorization code, signed by someone
\* who does not have the secret
Forged(t) == SignJWT(CLIENT_ID, REDIRECT_URI, AUTH_CODE_EXPIRY, t, "attacker-key")

IssuedTokens == {i.token : i \in issued}

\* what a client can put in the code or refresh_token field: a token the
\* server issued, a forged token, or a string that is no token
Presentable ==
  IssuedTokens \cup {Forged(now), NotAToken("NON_EXISTENT_CODE")}

AuthorizeRequests ==
  [response_type : ResponseTypes, client_id : ClientIds,
   redirect_uri : RedirectUris, state : States]

\* the Authorize requests of a client that does not use the state parameter
StatelessRequests == {req \in AuthorizeRequests : req.state = NoState}

\* the credential travels in the field of the grant it is meant for
TokenBody(grant_type, credential, client_id, redirect_uri) ==
  [grant_type |-> grant_type,
   code |-> IF grant_type = "refresh_token" THEN NotAToken(Absent) ELSE credential,
   client_id |-> client_id,
   redirect_uri |-> redirect_uri,
   refresh_token |-> IF grant_type = "refresh_token" THEN credential ELSE NotAToken(Absent)]

Credential(body) ==
  IF body.grant_type = "refresh_token" THEN body.refresh_token ELSE body.code

\* the previous request redeemed this credential: it got tokens for it
Redeemed(prev, credential) ==
  /\ prev.op = "token"
  /\ prev.minted # {}
  /\ Credential(prev.req) = credential

(* ------------------------------ the system ----------------------------- *)

Init ==
  /\ now = 0
  /\ ticks = 0
  /\ issued = {}
  /\ rotated = {}
  /\ last = [op |-> "none"]

AuthorizeStep(requests) ==
  /\ Cardinality(issued) < MaxIssued
  /\ \E req \in requests :
       LET r == Authorize(req, now)
       IN /\ issued' = issued \cup r.minted
          /\ last' = [op |-> "authorize", req |-> req, at |-> now,
                      responses |-> r.responses, minted |-> r.minted,
                      replay |-> FALSE]
  /\ UNCHANGED <<now, ticks, rotated>>

AuthorizeRequest == AuthorizeStep(StatelessRequests)

AuthorizeWithState == AuthorizeStep(AuthorizeRequests)

TokenRequest ==
  /\ Cardinality(issued) < MaxIssued
  /\ \E grant_type \in GrantTypes, credential \in Presentable,
        client_id \in ClientIds, redirect_uri \in RedirectUris :
       LET body == TokenBody(grant_type, credential, client_id, redirect_uri)
           r == Token(body, now)
       IN /\ issued' = issued \cup r.minted
          /\ rotated' = IF grant_type = "refresh_token"
                        THEN rotated \cup {m.token : m \in {x \in r.minted : x.kind = "refresh"}}
                        ELSE rotated
          /\ last' = [op |-> "token", req |-> body, at |-> now,
                      responses |-> r.responses, minted |-> r.minted,
                      replay |-> Redeemed(last, credential)]
  /\ UNCHANGED <<now, ticks>>

\* time passes between requests
Tick ==
  /\ ticks < MaxTicks
  /\ \E d \in Deltas : now' = now + d
  /\ ticks' = ticks + 1
  /\ UNCHANGED <<issued, rotated, last>>

Next == AuthorizeRequest \/ TokenRequest \/ Tick

Spec == Init /\ [][Next]_vars

\* the authorize endpoint on its own, with every form of the state parameter
NextAuthorize == AuthorizeWithState \/ Tick

SpecAuthorize == Init /\ [][NextAuthorize]_vars

(* --------------------------- tokens by their use ----------------------- *)

Codes == {i.token : i \in {x \in issued : x.kind = "code"}}
AccessTokens == {i.token : i \in {x \in issued : x.kind = "access"}}
RefreshTokens == {i.token : i \in {x \in issued : x.kind = "refresh"}}

\* the last request was a token request of this grant type
TokenCall(grant_type) == last.op = "token" /\ last.req.grant_type = grant_type

\* the last request was answered by this error alone and signed nothing
Rejected(e) == last.responses = <<Error(e)>> /\ last.minted = {}

\* the last request was answered by a token pair
Granted == last.op = "token" /\ last.minted # {}

(* -------------------------------- claims ------------------------------- *)

\* C1: in the refresh_token grant, a valid refresh token presented with a
\* client_id other than the one it embeds is rejected with invalid_client
\* and nothing is issued, whatever the request's redirect_uri (absent too).
C1_MismatchRejected ==
  (/\ TokenCall("refresh_token")
   /\ last.req.refresh_token \in RefreshTokens
   /\ last.at < last.req.refresh_token.payload.exp
   /\ last.req.refresh_token.payload.clientId # last.req.client_id)
     => Rejected("invalid_client")

\* C2 as stated: every successful refresh_token grant returns a refresh token
\* that differs from the refresh token presented and from every refresh
\* token an earlier successful refresh call returned, however close the
\* calls are.
C2_AlwaysRotates ==
  [][(/\ last' # last
      /\ last'.op = "token"
      /\ last'.req.grant_type = "refresh_token"
      /\ last'.req.refresh_token \in RefreshTokens
      /\ last'.minted # {})
       => /\ last'.responses[1].body.refresh_token # last'.req.refresh_token
          /\ last'.responses[1].body.refresh_token \notin rotated]_vars

\* C2 amended: a successful refresh_token grant returns a refresh token that
\* differs from the presented token and from every refresh token an earlier
\* successful refresh call returned, whenever that token was issued in an
\* earlier clock second than the call; a refresh token presented in the
\* second of its issue with its own client_id comes back unchanged.
C2_RotatesAcrossSeconds ==
  [][(/\ last' # last
      /\ last'.op = "token"
      /\ last'.req.grant_type = "refresh_token"
      /\ last'.minted # {})
       => /\ last'.req.refresh_token.payload.iat < last'.at
               => last'.responses[1].body.refresh_token # last'.req.refresh_token
          /\ \A old \in rotated :
               old.payload.iat < last'.at
                 => last'.responses[1].body.refresh_token # old
          /\ (/\ last'.req.refresh_token \in RefreshTokens
              /\ last'.req.refresh_token.payload.iat = last'.at
              /\ last'.req.refresh_token.payload.clientId = last'.req.client_id)
               => last'.responses[1].body.refresh_token = last'.req.refresh_token]_vars

\* a refresh token issued earlier is redeemed a second time, after an
\* earlier refresh call returned a token of an earlier second
C2_Witness ==
  /\ TokenCall("refresh_token")
  /\ Granted
  /\ last.replay
  /\ last.req.refresh_token \in RefreshTokens
  /\ last.req.refresh_token.payload.iat < last.at
  /\ \E old \in rotated : old.payload.iat < last.at

\* C3: in the authorization_code grant a code that does not verify (not a
\* token, not signed by the server, or expired) is rejected with
\* invalid_code; a code that verifies but whose clientId or redirectUri
\* differs from the request's is rejected with invalid_client; in both cases
\* nothing is issued.
C3_CodeRejections ==
  TokenCall("authorization_code") =>
    LET code == last.req.code
        verifies == code \in IssuedTokens /\ last.at < code.payload.exp
    IN /\ ~verifies => Rejected("invalid_code")
       /\ (/\ verifies
           /\ \/ code.payload.clientId # last.req.client_id
              \/ code.payload.redirectUri # last.req.redirect_uri)
            => Rejected("invalid_client")

\* an unexpired code of the server is presented with its own client_id and
\* another redirect_uri
C3_Witness ==
  /\ TokenCall("authorization_code")
  /\ last.req.code \in Codes
  /\ last.at < last.req.code.payload.exp
  /\ last.req.code.payload.clientId = last.req.client_id
  /\ last.req.code.payload.redirectUri # last.req.redirect_uri
  /\ Rejected("invalid_client")

\* C4: Authorize with response_type "code" and the configured client_id and
\* redirect_uri issues a code that verifies and embeds that clientId and
\* redirectUri; presenting it to the authorization_code grant with the same
\* client_id and redirect_uri before it expires returns 200 with token_type
\* "bearer", expires_in 3600 and an access token and a refresh token that
\* both verify under the signing secret.
C4_RoundTrip ==
  /\ (/\ last.op = "authorize"
      /\ last.req.response_type = "code"
      /\ last.req.client_id = CLIENT_ID
      /\ last.req.redirect_uri = REDIRECT_URI)
       => /\ Len(last.responses) = 1
          /\ last.responses[1].status = 302
          /\ last.responses[1].kind = "redirect"
          /\ last.responses[1].location.base = last.req.redirect_uri
          /\ LET code == last.responses[1].location.code
             IN /\ jwtVerify(code, secretKey, last.at)
                /\ code.payload.clientId = last.req.client_id
                /\ code.payload.redirectUri = last.req.redirect_uri
  /\ (/\ TokenCall("authorization_code")
      /\ last.req.code \in Codes
      /\ last.at < last.req.code.payload.exp
      /\ last.req.client_id = CLIENT_ID
      /\ last.req.redirect_uri = REDIRECT_URI)
       => /\ Len(last.responses) = 1
          /\ last.responses[1].status = 200
          /\ last.responses[1].kind = "json"
          /\ DOMAIN last.responses[1].body
               = {"access_token", "token_type", "expires_in", "refresh_token"}
          /\ last.responses[1].body.token_type = "bearer"
          /\ last.responses[1].body.expires_in = 3600
          /\ jwtVerify(last.responses[1].body.access_token, secretKey, last.at)
          /\ jwtVerify(last.responses[1].body.refresh_token, secretKey, last.at)

\* a code of the server is exchanged with the configured client_id and
\* redirect_uri in the last second of its life
C4_Witness ==
  /\ TokenCall("authorization_code")
  /\ last.req.code \in Codes
  /\ last.at = last.req.code.payload.exp - 1
  /\ last.req.client_id = CLIENT_ID
  /\ last.req.redirect_uri = REDIRECT_URI
  /\ Granted

\* C5: Authorize checks response_type, then client_id, then redirect_uri and
\* reports the first failure only; every rejection is a 400 that issues no
\* code and no redirect.
C5_ValidationOrder ==
  last.op = "authorize" =>
    /\ last.req.response_type # "code"
         => /\ last.responses = <<Send(400, "Unsupported response_type. Expected \"code\".")>>
            /\ last.minted = {}
    /\ (last.req.response_type = "code" /\ last.req.client_id # CLIENT_ID)
         => /\ last.responses = <<Send(400, "Invalid client_id.")>>
            /\ last.minted = {}
    /\ (/\ last.req.response_type = "code"
        /\ last.req.client_id = CLIENT_ID
        /\ last.req.redirect_uri # REDIRECT_URI)
         => /\ last.responses = <<Send(400, "Invalid redirect_uri.")>>
            /\ last.minted = {}

\* an Authorize request in which all three parameters are wrong
C5_Witness ==
  /\ last.op = "authorize"
  /\ last.req.response_type # "code"
  /\ last.req.client_id # CLIENT_ID
  /\ last.req.redirect_uri # REDIRECT_URI
  /\ last.responses[1].status = 400

\* C6: on every successful Authorize the redirect carries the code; a state
\* value the request supplied (the empty string too) comes back as the state
\* parameter, decoded to the same value, and without a supplied state the
\* redirect has no state parameter.
C6_StateEchoed ==
  (last.op = "authorize" /\ last.minted # {}) =>
    LET location == last.responses[1].location
    IN /\ location.code \in Codes
       /\ last.req.state.present
            => /\ HasStateParam(location)
               /\ StateParam(location).value = last.req.state.value
       /\ ~last.req.state.present => ~HasStateParam(location)

\* C7: acceptance depends on the signature and the clock only.  Every token
\* expires 5 minutes (code), 1 hour (access token) or 30 days (refresh
\* token) after it was issued; a code or refresh token of the server
\* verifies at every instant before its expiry, redeemed before or not, and
\* is refused (invalid_code, invalid_refresh_token) from its expiry on.
C7_ValidUntilExpiry ==
  /\ \A i \in issued :
       i.token.payload.exp = i.token.payload.iat +
         (CASE i.kind = "code" -> 300
            [] i.kind = "access" -> 3600
            [] i.kind = "refresh" -> 2592000)
  /\ (TokenCall("authorization_code") /\ last.req.code \in Codes)
       => (last.at < last.req.code.payload.exp
             <=> last.responses # <<Error("invalid_code")>>)
  /\ (TokenCall("refresh_token") /\ last.req.refresh_token \in RefreshTokens)
       => (last.at < last.req.refresh_token.payload.exp
             <=> last.responses # <<Error("invalid_refresh_token")>>)

\* a code that the previous request already redeemed is redeemed again in
\* the last second before its expiry
C7_Witness ==
  /\ TokenCall("authorization_code")
  /\ last.req.code \in Codes
  /\ last.replay
  /\ last.at = last.req.code.payload.exp - 1
  /\ Granted

\* C8: a token request gets exactly one response: a 200 with an access token
\* and a refresh token, or a 400 whose error is invalid_client, invalid_code,
\* invalid_refresh_token or unsupported_grant_type; a grant_type other than
\* the two supported ones (an absent one too) gets unsupported_grant_type
\* and no token, whatever the other fields hold.
C8_OneResponse ==
  last.op = "token" =>
    /\ Len(last.responses) = 1
    /\ last.responses[1].kind = "json"
    /\ \/ /\ last.responses[1].status = 200
          /\ DOMAIN last.responses[1].body
               = {"access_token", "token_type", "expires_in", "refresh_token"}
          /\ IsJWT(last.responses[1].body.access_token)
          /\ IsJWT(last.responses[1].body.refresh_token)
       \/ /\ last.responses[1].status = 400
          /\ DOMAIN last.responses[1].body = {"error"}
          /\ last.responses[1].body.error \in
               {"invalid_client", "invalid_code", "invalid_refresh_token",
                "unsupported_grant_type"}
          /\ last.minted = {}
    /\ last.req.grant_type \notin {"authorization_code", "refresh_token"}
         => Rejected("unsupported_grant_type")

\* a request without grant_type whose other fields would pass the
\* authorization_code grant
C8_Witness ==
  /\ last.op = "token"
  /\ last.req.grant_type = Absent
  /\ last.req.code \in Codes
  /\ last.at < last.req.code.payload.exp
  /\ last.req.client_id = CLIENT_ID
  /\ last.req.redirect_uri = REDIRECT_URI
  /\ Rejected("unsupported_grant_type")

\* C9: every code, access token and refresh token the server has issued
\* embeds the configured client as its clientId.
C9_OnlyConfiguredClient ==
  \A i \in issued : i.token.payload.clientId = CLIENT_ID

\* C10: the authorization_code grant succeeds only for a token that Authorize
\* issued, and the refresh_token grant only for a token issued as a refresh
\* token.
C10_KindsNotInterchangeable ==
  /\ (TokenCall("authorization_code") /\ Granted) => last.req.code \in Codes
  /\ (TokenCall("refresh_token") /\ Granted) => last.req.refresh_token \in RefreshTokens

====
